---- MODULE Spec2Model ----
(***************************************************************************)
(* regex-potata: a pattern string is parsed into an AST (parser.rs), the   *)
(* AST is compiled into a Thompson NFA with capture-group annotations      *)
(* (nfa.rs), and the NFA is simulated on an input string (regex.rs).       *)
(*                                                                         *)
(* A character is a string naming one codepoint ("a", "(", "ko" for        *)
(* U+3053); a str is a sequence of characters.  Byte offsets are computed  *)
(* from the UTF-8 length of each codepoint.  Option<T> is <<>> (None) or   *)
(* <<x>> (Some(x)).  "FF" and "VT" name U+000C and U+000B.                 *)
(***************************************************************************)
EXTENDS Integers, Sequences, FiniteSets, TLC

None == <<>>
Some(x) == <<x>>

(***************************************************************************)
(* Characters                                                              *)
(***************************************************************************)
CodePoint(c) ==
  CASE c = "\t" -> 9   [] c = " " -> 32  [] c = "!" -> 33
    [] c = "(" -> 40   [] c = ")" -> 41  [] c = "*" -> 42  [] c = "+" -> 43
    [] c = "," -> 44   [] c = "-" -> 45  [] c = "." -> 46
    [] c = "0" -> 48   [] c = "1" -> 49  [] c = "2" -> 50  [] c = "3" -> 51
    [] c = "4" -> 52   [] c = "6" -> 54  [] c = "7" -> 55  [] c = "8" -> 56
    [] c = "5" -> 53   [] c = "9" -> 57
    [] c = ":" -> 58   [] c = "<" -> 60  [] c = ">" -> 62  [] c = "?" -> 63
    [] c = "A" -> 65   [] c = "Z" -> 90
    [] c = "[" -> 91   [] c = "\\" -> 92 [] c = "]" -> 93  [] c = "^" -> 94
    [] c = "a" -> 97   [] c = "b" -> 98  [] c = "c" -> 99  [] c = "d" -> 100
    [] c = "e" -> 101  [] c = "h" -> 104 [] c = "i" -> 105 [] c = "m" -> 109
    [] c = "n" -> 110  [] c = "o" -> 111 [] c = "r" -> 114 [] c = "s" -> 115
    [] c = "t" -> 116  [] c = "u" -> 117 [] c = "w" -> 119 [] c = "y" -> 121
    [] c = "z" -> 122 [] c = "l" -> 108 [] c = "k" -> 107 [] c = "x" -> 120
    [] c = "D" -> 68   [] c = "S" -> 83  [] c = "W" -> 87
    [] c = "{" -> 123  [] c = "|" -> 124 [] c = "}" -> 125
    [] c = "e'" -> 233      \* U+00E9, two bytes in UTF-8
    [] c = "ko" -> 12371    \* U+3053, three bytes in UTF-8
    [] c = "de" -> 12391    \* U+3067, three bytes in UTF-8

\* the number of bytes of the UTF-8 encoding of the codepoint cp
Utf8Len(cp) ==
  IF cp < 128 THEN 1
  ELSE IF cp < 2048 THEN 2
  ELSE IF cp < 65536 THEN 3 ELSE 4

len_utf8(c) == Utf8Len(CodePoint(c))

Between(cp, lo, hi) == cp >= lo /\ cp <= hi

is_ascii_digit(c) == Between(CodePoint(c), 48, 57)

\* the alphabetic codepoints among those of the model
Alphabetic(cp) ==
  Between(cp, 65, 90) \/ Between(cp, 97, 122) \/ cp \in {233, 12371, 12391}

is_alphabetic(c) == Alphabetic(CodePoint(c))

RECURSIVE ByteLen(_)
ByteLen(s) == IF s = <<>> THEN 0 ELSE len_utf8(Head(s)) + ByteLen(Tail(s))

Drop(s, n) == SubSeq(s, n + 1, Len(s))
Take(s, n) == SubSeq(s, 1, n)

\* str::get(..1): the first byte as a str, None when the str is empty or byte 1
\* is not a codepoint boundary.
Get1(s) ==
  IF s # <<>> /\ len_utf8(Head(s)) = 1 THEN Some(Head(s)) ELSE None

\* str::get(..2): the first two bytes as a str, None when out of range or byte
\* 2 is not a codepoint boundary.
Get2(s) ==
  IF s = <<>> THEN None
  ELSE IF len_utf8(Head(s)) = 2 THEN Some(<<Head(s)>>)
  ELSE IF len_utf8(Head(s)) = 1 /\ Len(s) >= 2 /\ len_utf8(s[2]) = 1
       THEN Some(<<s[1], s[2]>>)
  ELSE None

(***************************************************************************)
(* ast.rs                                                                  *)
(***************************************************************************)
Empty == [type |-> "Empty"]
Character(c) == [type |-> "Character", ch |-> c]
Wildcard == [type |-> "Wildcard"]
alternation(l, r) == [type |-> "Alternation", lhs |-> l, rhs |-> r]
concatenation(l, r) == [type |-> "Concatenation", lhs |-> l, rhs |-> r]
star(x) == [type |-> "Star", inner |-> x]
plus(x) == [type |-> "Plus", inner |-> x]
optional(x) == [type |-> "Optional", inner |-> x]
range(x, r) == [type |-> "Range", inner |-> x, min |-> r.min, max |-> r.max]
group(x, cap, nm) ==
  [type |-> "Group", inner |-> x, is_capturing |-> cap, name |-> nm]
class(neg, mem) == [type |-> "CharacterClass", negate |-> neg, members |-> mem]
Atom(c) == [m |-> "Atom", lo |-> c, hi |-> c]
ClassRange(l, u) == [m |-> "Range", lo |-> l, hi |-> u]
Range_new(mn, mx) == [min |-> mn, max |-> mx]

(***************************************************************************)
(* parser.rs.  A parse result is [ok |-> TRUE, val |-> v, rest |-> r] or   *)
(* [ok |-> FALSE, err |-> e].                                              *)
(***************************************************************************)
Ok(v, r) == [ok |-> TRUE, val |-> v, rest |-> r]
Err(e) == [ok |-> FALSE, err |-> e]

needs_escape(ch) ==
  ch \in {"\\", "[", "]", "(", ")", "{", "}", ".", "?", "+", "*", "-"}

digit_range == <<ClassRange("0", "9")>>
word_range == <<ClassRange("0", "9"), ClassRange("a", "z"), ClassRange("A", "Z")>>
whitespace == <<Atom(" "), Atom("\t"), Atom("\n"), Atom("\r"), Atom("FF"), Atom("VT")>>

get_range_alias(ch) ==
  CASE ch = "d" -> Some(class(FALSE, digit_range))
    [] ch = "D" -> Some(class(TRUE, digit_range))
    [] ch = "w" -> Some(class(FALSE, word_range))
    [] ch = "W" -> Some(class(TRUE, word_range))
    [] ch = "s" -> Some(class(FALSE, whitespace))
    [] ch = "S" -> Some(class(TRUE, whitespace))
    [] OTHER -> None

\* take_while(predicate): the longest prefix whose characters satisfy it.
RECURSIVE PrefixLen(_, _)
PrefixLen(s, digits) ==
  IF s = <<>> THEN 0
  ELSE IF (IF digits THEN is_ascii_digit(Head(s)) ELSE is_alphabetic(Head(s)))
       THEN 1 + PrefixLen(Tail(s), digits)
       ELSE 0

RECURSIVE ParseUsize(_, _)
ParseUsize(s, acc) ==
  IF s = <<>> THEN acc
  ELSE ParseUsize(Tail(s), 10 * acc + (CodePoint(Head(s)) - 48))

\* the number written by the first n characters, None when n = 0
number_at(input, n) ==
  Ok(IF n = 0 THEN None ELSE Some(ParseUsize(Take(input, n), 0)),
     Drop(input, n))

take_number(input) == number_at(input, PrefixLen(input, TRUE))

split_at(input, n) == [name |-> Take(input, n), rest |-> Drop(input, n)]

take_alphabetic(input) == split_at(input, PrefixLen(input, FALSE))

take_char(input) ==
  IF input = <<>> THEN [ch |-> None, rest |-> input]
  ELSE [ch |-> Some(Head(input)), rest |-> Tail(input)]

parse_char(input) ==
  LET t == take_char(input) IN
  IF t.ch = None THEN Err("UnexpectedEndOfInput")
  ELSE IF t.ch = Some("\\") THEN
    LET u == take_char(t.rest) IN
    IF u.ch = None THEN Err("UnexpectedEndOfInput")
    ELSE IF needs_escape(u.ch[1])
         THEN Ok([ch |-> u.ch[1], is_escaped |-> TRUE], u.rest)
         ELSE Err("InvalidEscapeSequence")
  ELSE Ok([ch |-> t.ch[1], is_escaped |-> FALSE], t.rest)

RECURSIVE parse_class_members_inner(_, _)
parse_class_members_inner(input, acc) ==
  LET p == parse_char(input) IN
  IF ~p.ok THEN p
  ELSE IF p.val.ch = "]" /\ ~p.val.is_escaped THEN Ok(acc, p.rest)
  ELSE IF p.rest # <<>> /\ Head(p.rest) = "-" THEN
    LET q == parse_char(Tail(p.rest)) IN
    IF ~q.ok THEN q
    ELSE parse_class_members_inner(q.rest,
           acc \o <<ClassRange(p.val.ch, q.val.ch)>>)
  ELSE parse_class_members_inner(p.rest, acc \o <<Atom(p.val.ch)>>)

parse_class_members(input) == parse_class_members_inner(input, <<>>)

parse_class(input) ==
  LET negate == Get1(input) = Some("^")
      rest == IF negate THEN Tail(input) ELSE input
      r == parse_class_members(rest)
  IN  IF r.ok THEN Ok(class(negate, r.val), r.rest) ELSE r

parse_metachar(input) ==
  IF input = <<>> THEN Err("UnexpectedEndOfInput")
  ELSE IF needs_escape(Head(input)) THEN Ok(Character(Head(input)), Tail(input))
  ELSE LET a == get_range_alias(Head(input)) IN
       IF a = None THEN Err("InvalidEscapeSequence") ELSE Ok(a[1], Tail(input))

\* the upper bound written by the number t, closed by a brace
range_upper_of(t) ==
  IF t.val # None /\ Get1(t.rest) = Some("}")
  THEN Ok(t.val, Tail(t.rest))
  ELSE Err("InvalidRangeQuantifier")

parse_range_upper(input) ==
  IF Get1(input) = Some("}") THEN Ok(None, Tail(input))
  ELSE IF Get1(input) # None THEN range_upper_of(take_number(input))
  ELSE Err("InvalidRangeQuantifier")

\* the Range of the minimum mn and the parsed upper bound u
range_between(mn, u) ==
  IF u.ok THEN Ok(Range_new(mn, u.val), u.rest) ELSE u

\* what follows the minimum written by the number t
range_after(t) ==
  IF t.val # None /\ Get1(t.rest) = Some(",")
  THEN range_between(t.val[1], parse_range_upper(Tail(t.rest)))
  ELSE IF t.val # None /\ Get1(t.rest) = Some("}")
  THEN Ok(Range_new(t.val[1], Some(t.val[1])), Tail(t.rest))
  ELSE Err("InvalidRangeQuantifier")

parse_range(input) == range_after(take_number(input))

RECURSIVE parse_alternation(_)
RECURSIVE parse_concat(_)
RECURSIVE parse_quantifier(_)
RECURSIVE parser_atom(_)
RECURSIVE parse_group(_)

\* the closing parenthesis of a group whose inner expression parsed to r
group_of(r, is_capturing, name) ==
  IF ~r.ok THEN r
  ELSE IF Get1(r.rest) = Some(")")
       THEN Ok(group(r.val, is_capturing, name), Tail(r.rest))
       ELSE Err("MissingCharacter(')')")

\* a group whose first two bytes are two and whose name, if any, is nm.name
group_after(input, two, nm) ==
  IF two = Some(<<":", "?">>)
  THEN group_of(parse_alternation(Drop(input, 2)), FALSE, None)
  ELSE IF two = Some(<<"?", "<">>)
  THEN IF nm.name = <<>> \/ nm.rest = <<>> \/ Head(nm.rest) # ">"
       THEN Err("InvalidCaptureName")
       ELSE group_of(parse_alternation(Tail(nm.rest)), TRUE, Some(nm.name))
  ELSE group_of(parse_alternation(input), TRUE, None)

parse_group(input) ==
  group_after(input, Get2(input), take_alphabetic(Drop(input, 2)))

parser_atom(input) ==
  IF input = <<>> THEN Ok(Empty, input)
  ELSE LET c == Head(input) IN
       CASE c = "(" -> parse_group(Tail(input))
         [] c = "[" -> parse_class(Tail(input))
         [] c = "\\" -> parse_metachar(Tail(input))
         [] c = "." -> Ok(Wildcard, Tail(input))
         [] c = ")" -> Ok(Empty, input)
         [] OTHER -> Ok(Character(c), Tail(input))

\* the range quantifier parsed to r, applied to the atom a
range_of(a, r) == IF r.ok THEN Ok(range(a.val, r.val), r.rest) ELSE r

\* the quantifier that follows the atom parsed to a
quantifier_of(a) ==
  IF ~a.ok THEN a
  ELSE LET one == Get1(a.rest) IN
       CASE one = Some("+") -> Ok(plus(a.val), Tail(a.rest))
         [] one = Some("*") -> Ok(star(a.val), Tail(a.rest))
         [] one = Some("?") -> Ok(optional(a.val), Tail(a.rest))
         [] one = Some("{") -> range_of(a, parse_range(Tail(a.rest)))
         [] OTHER -> a

parse_quantifier(input) == quantifier_of(parser_atom(input))

\* a variant that nests a run of atoms the other way round
concat_join_flipped(q, r) ==
  IF r.ok THEN Ok(concatenation(r.val, q.val), r.rest) ELSE r

\* the concatenation of the parsed q with the parsed rest r
concat_join(q, r) ==
  IF r.ok THEN Ok(concatenation(q.val, r.val), r.rest) ELSE r

\* what follows the quantified atom parsed to q
concat_of(q) ==
  IF ~q.ok THEN q
  ELSE LET one == Get1(q.rest) IN
       IF one = Some("|") \/ one = Some(")") \/ one = None THEN q
       ELSE concat_join(q, parse_concat(q.rest))

parse_concat(input) == concat_of(parse_quantifier(input))

\* the alternation of the parsed c with the parsed right-hand side r
alternation_join(c, r) ==
  IF r.ok THEN Ok(alternation(c.val, r.val), r.rest) ELSE r

\* what follows the concatenation parsed to c
alternation_of(c) ==
  IF ~c.ok THEN c
  ELSE IF Get1(c.rest) = Some("|")
       THEN alternation_join(c, parse_alternation(Tail(c.rest)))
       ELSE c

parse_alternation(input) == alternation_of(parse_concat(input))

\* Result<Node>: the rest of the input is dropped.
regex_of(r) == IF r.ok THEN [ok |-> TRUE, val |-> r.val] ELSE r

parse_regex(input) == regex_of(parse_alternation(input))

(***************************************************************************)
(* nfa.rs.  A StateId is a usize; the one value of the model outside       *)
(* 0..state_count is -1, standing for usize::MAX = 2^64 - 1 (the wrapped   *)
(* result of a subtraction below zero in a build without overflow checks): *)
(* -1 is congruent to it modulo 2^64, so wrapping additions agree.         *)
(***************************************************************************)
START == 0

Epsilon == [t |-> "Epsilon"]
KCharacter(c) == [t |-> "Character", ch |-> c]
KWildcard == [t |-> "Wildcard"]
KCharacterClass(cc) == [t |-> "CharacterClass", class |-> cc]

Transition_new(kind, end) == [kind |-> kind, end |-> end]

is_epsilon(t) == t.kind.t = "Epsilon"

ClassContains(cc, input) ==
  \E k \in 1..Len(cc.members) :
    LET c == cc.members[k] IN
    IF c.m = "Atom" THEN input = c.lo
    ELSE CodePoint(c.lo) <= CodePoint(input) /\ CodePoint(c.hi) >= CodePoint(input)

accept(t, input) ==
  CASE t.kind.t = "Character" -> t.kind.ch = input
    [] t.kind.t = "Wildcard" -> TRUE
    [] t.kind.t = "Epsilon" -> FALSE
    [] t.kind.t = "CharacterClass" ->
         (t.kind.class.negate # ClassContains(t.kind.class, input))

CaptureGroup(s, e) == [start |-> s, end |-> e]

NfaBuilder_default ==
  [state_count |-> 0, transitions |-> <<>>, capture_groups |-> <<>>,
   named_capture_groups |-> <<>>]

Nfa_end(nfa) == nfa.state_count - 1

\* BTreeMap / HashMap insertion: replaces the value of an existing key.
MapInsert(m, k, v) == [x \in DOMAIN m \cup {k} |-> IF x = k THEN v ELSE m[x]]

add_transition(b, from, kind, to) ==
  LET old == IF from \in DOMAIN b.transitions THEN b.transitions[from] ELSE <<>>
      c1 == IF from + 1 > b.state_count THEN b.state_count + 1 ELSE b.state_count
      c2 == IF to + 1 > c1 THEN c1 + 1 ELSE c1
  IN  [b EXCEPT !.transitions =
                  MapInsert(@, from, Append(old, Transition_new(kind, to))),
                !.state_count = c2]

transition(b, from, kind, to) == add_transition(b, from, kind, to)

SetMin(S) == CHOOSE x \in S : \A y \in S : x <= y

RECURSIVE ExtendList(_, _, _, _, _)
ExtendList(b, from, ts, k, offset) ==
  IF k > Len(ts) THEN b
  ELSE ExtendList(add_transition(b, from + offset, ts[k].kind, ts[k].end + offset),
                  from, ts, k + 1, offset)

\* the transitions of other, by ascending source state (BTreeMap order)
RECURSIVE ExtendTransitions(_, _, _, _)
ExtendTransitions(b, tr, keys, offset) ==
  IF keys = {} THEN b
  ELSE LET k == SetMin(keys) IN
       ExtendTransitions(ExtendList(b, k, tr[k], 1, offset), tr, keys \ {k}, offset)

OffsetGroup(g, offset) == CaptureGroup(g.start + offset, g.end + offset)

extend(b, other, offset) ==
  LET b1 == ExtendTransitions(b, other.transitions, DOMAIN other.transitions, offset)
      shifted == [k \in 1..Len(other.capture_groups) |->
                    OffsetGroup(other.capture_groups[k], offset)]
      names == DOMAIN b1.named_capture_groups \cup DOMAIN other.named_capture_groups
  IN  [b1 EXCEPT
         !.capture_groups = @ \o shifted,
         !.named_capture_groups =
            [n \in names |->
               IF n \in DOMAIN other.named_capture_groups
               THEN OffsetGroup(other.named_capture_groups[n], offset)
               ELSE b1.named_capture_groups[n]]]

\* a variant that appends the group instead of inserting it at the front
builder_group_push(b, start, end) ==
  [b EXCEPT !.capture_groups = @ \o <<CaptureGroup(start, end)>>]

builder_group(b, start, end) ==
  [b EXCEPT !.capture_groups = <<CaptureGroup(start, end)>> \o @]

named_group(b, start, end, name) ==
  [b EXCEPT !.named_capture_groups = MapInsert(@, name, CaptureGroup(start, end))]

Nfa_epsilon == transition(NfaBuilder_default, START, Epsilon, 1)
Nfa_character(ch) == transition(NfaBuilder_default, START, KCharacter(ch), 1)
Nfa_wildcard == transition(NfaBuilder_default, START, KWildcard, 1)
Nfa_class(cc) == transition(NfaBuilder_default, START, KCharacterClass(cc), 1)

concatenate(self, other) ==
  LET offset == self.state_count IN
  transition(extend(self, other, offset), offset - 1, Epsilon, offset)

alternate(self, other) ==
  LET offset == self.state_count + 1
      new_end == offset + other.state_count
      b1 == transition(NfaBuilder_default, START, Epsilon, 1)
      b2 == transition(b1, START, Epsilon, offset)
      b3 == extend(b2, self, 1)
      b4 == extend(b3, other, offset)
      b5 == transition(b4, offset - 1, Epsilon, new_end)
  IN  transition(b5, new_end - 1, Epsilon, new_end)

one_or_more(self) ==
  LET offset == self.state_count
      b1 == transition(NfaBuilder_default, START, Epsilon, 1)
      b2 == extend(b1, self, 1)
      b3 == transition(b2, offset, Epsilon, 1)
  IN  transition(b3, offset, Epsilon, offset + 1)

\* a variant without the skip edge
zero_or_one_strict(self) == self

zero_or_one(self) == transition(self, START, Epsilon, Nfa_end(self))

zero_or_more(self) == one_or_more(zero_or_one(self))

RECURSIVE ConcatCopies(_, _, _)
ConcatCopies(nfa, copy, n) ==
  IF n <= 0 THEN nfa ELSE ConcatCopies(concatenate(nfa, copy), copy, n - 1)

\* a variant that appends plain copies where the optional copies belong
Nfa_range_plain(self, r) ==
  ConcatCopies(self, self, (IF r.max # None THEN r.max[1] ELSE r.min) - 1)

\* range.max = None subtracts clone.state_count from nfa.end() in usize: below
\* zero the subtraction wraps (no overflow checks) to 2^64 + the difference.
Nfa_range(self, r) ==
  LET nfa == ConcatCopies(self, self, r.min - 1) IN
  IF r.max # None
  THEN ConcatCopies(nfa, zero_or_one(self), r.max[1] - r.min)
  ELSE LET end == Nfa_end(nfa)
           b1 == transition(nfa, end, Epsilon, end - self.state_count)
       IN  transition(b1, end, Epsilon, end + 1)

RECURSIVE Nfa_from(_)
Nfa_group(g) ==
  LET nfa == Nfa_from(g.inner)
      end == Nfa_end(nfa)
  IN  IF g.name # None THEN named_group(nfa, START, end, g.name[1])
      ELSE IF g.is_capturing THEN builder_group(nfa, START, end)
      ELSE nfa

Nfa_from(value) ==
  CASE value.type = "Empty" -> Nfa_epsilon
    [] value.type = "Character" -> Nfa_character(value.ch)
    [] value.type = "Wildcard" -> Nfa_wildcard
    [] value.type = "Group" -> Nfa_group(value)
    [] value.type = "Plus" -> one_or_more(Nfa_from(value.inner))
    [] value.type = "Star" -> zero_or_more(Nfa_from(value.inner))
    [] value.type = "Optional" -> zero_or_one(Nfa_from(value.inner))
    [] value.type = "Concatenation" ->
         concatenate(Nfa_from(value.lhs), Nfa_from(value.rhs))
    [] value.type = "Alternation" ->
         alternate(Nfa_from(value.lhs), Nfa_from(value.rhs))
    [] value.type = "Range" ->
         Nfa_range(Nfa_from(value.inner), Range_new(value.min, value.max))
    [] value.type = "CharacterClass" ->
         Nfa_class([negate |-> value.negate, members |-> value.members])

\* With overflow checks (a debug build) the subtraction in Nfa::range panics
\* instead of wrapping: it goes below zero exactly when max = None and the
\* min-fold concatenation is a single copy (min <= 1).
RECURSIVE RangePanics(_)
RangePanics(value) ==
  CASE value.type \in {"Empty", "Character", "Wildcard", "CharacterClass"} -> FALSE
    [] value.type \in {"Group", "Plus", "Star", "Optional"} -> RangePanics(value.inner)
    [] value.type \in {"Concatenation", "Alternation"} ->
         RangePanics(value.lhs) \/ RangePanics(value.rhs)
    [] value.type = "Range" ->
         RangePanics(value.inner) \/ (value.max = None /\ value.min <= 1)

RECURSIVE EClose(_, _, _)
EClose(nfa, stack, eclosure) ==
  IF stack = <<>> THEN eclosure
  ELSE LET state == stack[Len(stack)]
           rest == SubSeq(stack, 1, Len(stack) - 1)
       IN  IF state \in eclosure THEN EClose(nfa, rest, eclosure)
           ELSE LET ts == IF state \in DOMAIN nfa.transitions
                          THEN nfa.transitions[state] ELSE <<>>
                    eclosed == SelectSeq(ts, is_epsilon)
                IN  EClose(nfa,
                           rest \o [k \in 1..Len(eclosed) |-> eclosed[k].end],
                           eclosure \cup {state})

\* a variant that follows the epsilon transitions of the start state only
epsilon_closure_direct(nfa, start) ==
  {start} \cup
    (IF start \in DOMAIN nfa.transitions
     THEN {nfa.transitions[start][k].end :
             k \in {k \in 1..Len(nfa.transitions[start]) :
                      is_epsilon(nfa.transitions[start][k])}}
     ELSE {})

epsilon_closure(nfa, start) == EClose(nfa, <<start>>, {})

Nfa_next(nfa, state, input) ==
  IF state \in DOMAIN nfa.transitions
  THEN {nfa.transitions[state][k].end :
          k \in {k \in 1..Len(nfa.transitions[state]) :
                   accept(nfa.transitions[state][k], input)}}
  ELSE {}

is_accepting(nfa, state) == Nfa_end(nfa) = state

(***************************************************************************)
(* regex.rs                                                                *)
(***************************************************************************)
Indexed(i) == [k |-> "Indexed", index |-> i, name |-> <<>>]
Named(n) == [k |-> "Named", index |-> 0, name |-> n]

\* HashMap<usize, Vec<CaptureKind>>: the entry of a state lists the indexed
\* groups in capture_groups order, then the named groups.  The named groups
\* are pushed in the iteration order of a HashMap; every CaptureKind of a list
\* updates an entry of its own, so that order does not show in any result and
\* the model fixes one.
RECURSIVE SetToSeq(_)
SetToSeq(S) ==
  IF S = {} THEN <<>>
  ELSE LET x == CHOOSE y \in S : TRUE IN <<x>> \o SetToSeq(S \ {x})

CaptureTable(nfa, field) ==
  LET names == SetToSeq(DOMAIN nfa.named_capture_groups)
      keys == {nfa.capture_groups[k][field] : k \in 1..Len(nfa.capture_groups)}
                \cup {nfa.named_capture_groups[n][field] :
                        n \in DOMAIN nfa.named_capture_groups}
      idx(s) == SelectSeq([k \in 1..Len(nfa.capture_groups) |-> k],
                          LAMBDA k : nfa.capture_groups[k][field] = s)
      nms(s) == SelectSeq(names,
                          LAMBDA n : nfa.named_capture_groups[n][field] = s)
  IN  [s \in keys |->
         [k \in 1..Len(idx(s)) |-> Indexed(idx(s)[k] - 1)]
           \o [k \in 1..Len(nms(s)) |-> Named(nms(s)[k])]]

\* Regex::new: Err(e) from the parser, a panic of Nfa::range when the build
\* has overflow checks, or the compiled Regex.
Regex_of(nfa) ==
  [status |-> "ok", nfa |-> nfa,
   start_capture |-> CaptureTable(nfa, "start"),
   end_capture |-> CaptureTable(nfa, "end")]

Regex_from(ast, overflow_checks) ==
  IF ~ast.ok THEN [status |-> "err", err |-> ast.err]
  ELSE IF overflow_checks /\ RangePanics(ast.val) THEN [status |-> "panic"]
  ELSE Regex_of(Nfa_from(ast.val))

Regex_new(pat, overflow_checks) == Regex_from(parse_regex(pat), overflow_checks)

\* byte offsets of a str
ByteOffset(s, k) == ByteLen(Take(s, k))
IsBoundary(s, b) == \E k \in 0..Len(s) : ByteOffset(s, k) = b
CharIdx(s, b) == CHOOSE k \in 0..Len(s) : ByteOffset(s, k) = b
SliceOk(s, from, to) == from <= to /\ IsBoundary(s, from) /\ IsBoundary(s, to)
Slice(s, from, to) == SubSeq(s, CharIdx(s, from) + 1, CharIdx(s, to))

Match_new(start, end, string) == [start |-> start, end |-> end, string |-> string]

\* new_mach: None unless both offsets are set; slicing panics when the range
\* is not a valid char range of the input.
MachPanics(input, span) ==
  span.start # None /\ span.end # None /\ ~SliceOk(input, span.start[1], span.end[1])

\* a variant that reports no match for an empty span
new_mach_nonempty(input, span) ==
  IF span.start # None /\ span.end # None /\ span.start # span.end
  THEN Some(Match_new(span.start[1], span.end[1],
                      Slice(input, span.start[1], span.end[1])))
  ELSE None

new_mach(input, span) ==
  IF span.start # None /\ span.end # None
  THEN Some(Match_new(span.start[1], span.end[1],
                      Slice(input, span.start[1], span.end[1])))
  ELSE None

Span(s, e) == [start |-> s, end |-> e]

update_capture_start(caps, key, position) ==
  IF key \in DOMAIN caps
  THEN IF caps[key].end = None
       THEN [caps EXCEPT ![key].start = Some(position)]
       ELSE caps
  ELSE MapInsert(caps, key, Span(Some(position), None))

\* a variant that records the end one byte before the position
update_capture_end_early(caps, key, position) ==
  IF key \in DOMAIN caps
  THEN [caps EXCEPT ![key].end = Some(position - 1)]
  ELSE caps

update_capture_end(caps, key, position) ==
  IF key \in DOMAIN caps
  THEN [caps EXCEPT ![key].end = Some(position)]
  ELSE caps

\* cs = [captures, named_captures]
ApplyKind(cs, g, position, isStart) ==
  IF g.k = "Indexed"
  THEN [cs EXCEPT !.captures =
          IF isStart THEN update_capture_start(@, g.index + 1, position)
          ELSE update_capture_end(@, g.index + 1, position)]
  ELSE [cs EXCEPT !.named_captures =
          IF isStart THEN update_capture_start(@, g.name, position)
          ELSE update_capture_end(@, g.name, position)]

RECURSIVE ApplyKinds(_, _, _, _)
ApplyKinds(cs, groups, position, isStart) ==
  IF groups = <<>> THEN cs
  ELSE ApplyKinds(ApplyKind(cs, Head(groups), position, isStart),
                  Tail(groups), position, isStart)

VisitState(re, cs, state, position) ==
  LET c1 == IF state \in DOMAIN re.start_capture
            THEN ApplyKinds(cs, re.start_capture[state], position, TRUE) ELSE cs
  IN  IF state \in DOMAIN re.end_capture
      THEN ApplyKinds(c1, re.end_capture[state], position, FALSE) ELSE c1

\* update_captures with the states visited in the given order
RECURSIVE update_captures(_, _, _, _)
update_captures(re, cs, order, position) ==
  IF order = <<>> THEN cs
  ELSE update_captures(re, VisitState(re, cs, Head(order), position),
                       Tail(order), position)

\* `for state in states` iterates a HashSet: any order.  Visiting a state with
\* no entry in start_capture or end_capture changes nothing, so the orders
\* are those of the states that have one.
RECURSIVE Orders(_)
Orders(S) ==
  IF S = {} THEN {<<>>}
  ELSE UNION {{<<x>> \o o : o \in Orders(S \ {x})} : x \in S}

CaptureStates(re, sts) ==
  {s \in sts : s \in DOMAIN re.start_capture \/ s \in DOMAIN re.end_capture}

Closure(nfa, sts) == UNION {epsilon_closure(nfa, s) : s \in sts}
NextStates(nfa, sts, ch) == UNION {Nfa_next(nfa, s, ch) : s \in sts}
has_accepting_state(nfa, sts) == \E s \in sts : is_accepting(nfa, s)

\* Regex::matches(input, false) as far as the whole match goes: the end of the
\* attempt whose inner loop stands at char jc with the given states
RECURSIVE AttemptEnd(_, _, _, _, _)
AttemptEnd(nfa, s, k, sts, en) ==
  LET closed == Closure(nfa, sts)
      acc == has_accepting_state(nfa, closed)
  IN  IF k >= Len(s) THEN (IF acc THEN Some(ByteLen(s)) ELSE en)
      ELSE LET en2 == IF acc THEN Some(ByteOffset(s, k)) ELSE en
               after == NextStates(nfa, closed, s[k + 1])
           IN  IF after = {} THEN en2 ELSE AttemptEnd(nfa, s, k + 1, after, en2)

\* Regex::find(input): the whole match of the first attempt that has an end
RECURSIVE FindFrom(_, _, _)
FindFrom(nfa, s, k) ==
  IF k >= Len(s) THEN None
  ELSE LET en == AttemptEnd(nfa, s, k, {START}, None) IN
       IF en = None THEN FindFrom(nfa, s, k + 1)
       ELSE new_mach(s, Span(Some(ByteOffset(s, k)), en))

Regex_find(re, s) == FindFrom(re.nfa, s, 0)

(***************************************************************************)
(* The inputs of the model: pattern strings and input strings.             *)
(***************************************************************************)
MaxOps == 2
MaxInputLen == 3

PatternAtoms == {<<>>, <<"a">>, <<"b">>}
InputAlphabet == {"a", "b"}

Quantified(p) ==
  IF p # <<>> /\ p[Len(p)] \in {"*", "?", "+"} THEN {}
  ELSE {p \o <<q>> : q \in {"*", "?", "+"}}

Grouped(p) ==
  {<<"(">> \o p \o <<")">>,
   <<"(", ":", "?">> \o p \o <<")">>,
   <<"(", "?", "<", "n", ">">> \o p \o <<")">>}

\* the pattern strings written with exactly n operators
RECURSIVE PatternsOf(_)
PatternsOf(n) ==
  IF n = 0 THEN PatternAtoms
  ELSE UNION {Quantified(p) \cup Grouped(p) : p \in PatternsOf(n - 1)}
       \cup UNION {UNION {UNION {{p \o q, p \o <<"|">> \o q}
                                   : q \in PatternsOf(n - 1 - k)}
                            : p \in PatternsOf(k)}
                     : k \in 0..(n - 1)}

GenPatterns == UNION {PatternsOf(n) : n \in 0..MaxOps}

RECURSIVE StringsOf(_, _)
StringsOf(A, n) ==
  IF n = 0 THEN {<<>>}
  ELSE {<<c>> \o w : c \in A, w \in StringsOf(A, n - 1)}

\* inputs with codepoints of two and three bytes
UnicodeInputs ==
  {<<"ko">>, <<"ko", "a">>, <<"a", "e'", "a", "b">>, <<"e'", "b", "ko", "a">>}

GenInputs == UNION {StringsOf(InputAlphabet, n) : n \in 0..MaxInputLen} \cup UnicodeInputs

\* the patterns and inputs of the repository's tests and of the scenarios
Pat_number == <<"[", "0", "-", "9", "]", "+", "(", "\\", ".", "[", "0", "-", "9", "]", "+", ")", "?">>
Pat_time ==
  <<"(", "?", "<", "h", ">", "\\", "d", "+", ")", ":",
    "(", "?", "<", "m", ">", "\\", "d", "+", ")">>
Pat_ah == <<"(", "a", "h", "+", ")", "(", ":", "?", "e", "h", "+", ")", "(", "o", "h", "+", ")">>

Pat_order == <<"a", "(", "b", "(", "c", ")", "(", "d", ")", ")", "(", "e", ")">>

CuratedCases ==
  {<<Pat_number, <<"1", "2", ".", "5", "0">>>>,
   <<Pat_time, <<"1", "9", ":", "3", "0">>>>,
   <<Pat_ah, <<"a", "h", "h", "e", "h", "o", "h", "h">>>>,
   <<<<"k", "o">>, <<"ko", "k", "o", "de">>>>,
   <<<<"ko">>, <<"de", "ko", "ko">>>>,
   <<<<"ko", "*">>, <<"a", "ko", "ko">>>>,
   <<<<"[", "z", "-", "a", "]">>, <<"b">>>>,
   <<Pat_order, <<"a", "b", "c", "d", "e">>>>,
   <<<<"a", "*", "(", "a", "b", ")">>, <<"a", "a", "b">>>>,
   <<<<"a", "*", "(", "a", ")">>, <<"a", "a">>>>,
   <<<<"(", "?", "<", "x", ">", "a", ")", "(", "b", ")">>, <<"a", "b">>>>}

Cases == (GenPatterns \X GenInputs) \cup CuratedCases

(***************************************************************************)
(* The state: one Regex::new followed by the calls captures, find, test,   *)
(* find_all and captures_all on the compiled Regex, each a run of          *)
(* Regex::matches.                                                         *)
(***************************************************************************)
VARIABLES
  pattern,         \* the pattern string
  input,           \* the input string
  regex,           \* the result of Regex::new, <<>> before it ran
  pc,              \* "new", "idle", "outer", "inner", "finish", "done", "panic"
  op,              \* the call in progress
  pos,             \* chars of input the outer loop has taken
  start,           \* matches: start (byte offset)
  jc,              \* chars of input the inner loop is at (absolute)
  states,          \* matches: states
  caps,            \* matches: [captures, named_captures]
  end,             \* matches: end
  result,          \* matches: result
  rets             \* the values returned so far, by call

vars == <<pattern, input, regex, pc, op, pos, start, jc, states, caps, end, result, rets>>

Ops == <<"captures", "find", "test", "find_all", "captures_all">>
AllOf(o) == o \in {"find_all", "captures_all"}

NoCaps == [captures |-> <<>>, named_captures |-> <<>>]
NoRets == [o \in {Ops[k] : k \in 1..Len(Ops)} |-> None]

Idle ==
  /\ op = "" /\ pos = 0 /\ start = 0 /\ jc = 0 /\ states = {}
  /\ caps = NoCaps /\ end = None /\ result = <<>>

Init ==
  /\ \E c \in Cases : pattern = c[1] /\ input = c[2]
  /\ regex = <<>>
  /\ pc = "new"
  /\ rets = NoRets
  /\ Idle

\* Regex::new(pattern)
Constructed(r) ==
  /\ regex' = r
  /\ pc' = IF r.status = "ok" THEN "idle" ELSE r.status

New ==
  /\ pc = "new"
  /\ \E overflow_checks \in BOOLEAN : Constructed(Regex_new(pattern, overflow_checks))
  /\ UNCHANGED <<pattern, input, op, pos, start, jc, states, caps, end, result, rets>>

\* the next call of the client, entering Regex::matches
Call ==
  /\ pc = "idle"
  /\ \E k \in 1..Len(Ops) :
       /\ rets[Ops[k]] = None
       /\ \A l \in 1..(k - 1) : rets[Ops[l]] # None
       /\ op' = Ops[k]
  /\ pc' = "outer"
  /\ result' = <<>>
  /\ pos' = 0
  /\ UNCHANGED <<pattern, input, regex, start, jc, states, caps, end, rets>>

\* a variant that starts every attempt at i, whatever was matched before
StartOf_every(i) == i

\* the start of the outer iteration at byte offset i
StartOf(i) ==
  IF result = <<>> THEN i
  ELSE LET capt == result[Len(result)] IN
       IF 0 \in DOMAIN capt.captures
       THEN (IF i > capt.captures[0].end THEN i ELSE capt.captures[0].end)
       ELSE i

\* for (i, _) in input.char_indices(): i < start, continue
Skip ==
  /\ pc = "outer"
  /\ pos < Len(input)
  /\ ByteOffset(input, pos) < StartOf(ByteOffset(input, pos))
  /\ pos' = pos + 1
  /\ UNCHANGED <<pattern, input, regex, pc, op, start, jc, states, caps, end, result, rets>>

\* for (i, _) in input.char_indices(): a search attempt begins at start
BeginAttempt ==
  /\ pc = "outer"
  /\ pos < Len(input)
  /\ LET i == ByteOffset(input, pos) IN
     /\ ~(i < StartOf(i))
     /\ start' = StartOf(i)
     /\ jc' = CharIdx(input, StartOf(i))
  /\ pos' = pos + 1
  /\ caps' = NoCaps
  /\ states' = {START}
  /\ end' = None
  /\ pc' = "inner"
  /\ UNCHANGED <<pattern, input, regex, op, result, rets>>

\* one iteration of for (j, ch) in input[start..].char_indices(); start is the
\* offset of a char of the input, so the loop runs at least once
Step ==
  /\ pc = "inner"
  /\ jc < Len(input)
  /\ LET position == ByteOffset(input, jc)
         ch == input[jc + 1]
         closed == Closure(regex.nfa, states)
         after == NextStates(regex.nfa, closed, ch)
     IN  /\ \E order \in Orders(CaptureStates(regex, closed)) :
               caps' = update_captures(regex, caps, order, position)
         /\ end' = IF has_accepting_state(regex.nfa, closed) THEN Some(position) ELSE end
         /\ states' = after
         /\ jc' = jc + 1
         /\ pc' = IF after = {} \/ jc + 1 = Len(input) THEN "finish" ELSE "inner"
  /\ UNCHANGED <<pattern, input, regex, op, pos, start, result, rets>>

\* the Capture built from the tables of a matching attempt
CaptureOf(cs, st, en) ==
  LET spans == MapInsert(cs.captures, 0, Span(Some(st), en))
      keep == {k \in DOMAIN spans : new_mach(input, spans[k]) # None}
      nkeep == {n \in DOMAIN cs.named_captures :
                  new_mach(input, cs.named_captures[n]) # None}
  IN  [captures |-> [k \in keep |-> new_mach(input, spans[k])[1]],
       named_captures |-> [n \in nkeep |-> new_mach(input, cs.named_captures[n])[1]]]

CapturePanics(cs, st, en) ==
  \/ MachPanics(input, Span(Some(st), en))
  \/ \E k \in DOMAIN cs.captures : MachPanics(input, cs.captures[k])
  \/ \E n \in DOMAIN cs.named_captures : MachPanics(input, cs.named_captures[n])

\* a variant that takes the first group instead of the whole match
find_of_group(res) ==
  IF res = <<>> THEN None
  ELSE IF 1 \in DOMAIN res[1].captures THEN Some(res[1].captures[1]) ELSE None

\* what the call returns for the result of matches
find_of(res) ==
  IF res = <<>> THEN None
  ELSE IF 0 \in DOMAIN res[1].captures THEN Some(res[1].captures[0]) ELSE None

RECURSIVE find_all_of(_)
find_all_of(res) ==
  IF res = <<>> THEN <<>>
  ELSE (IF 0 \in DOMAIN Head(res).captures THEN <<Head(res).captures[0]>> ELSE <<>>)
         \o find_all_of(Tail(res))

ReturnValue(o, res) ==
  CASE o = "captures" -> IF res = <<>> THEN None ELSE Some(res[1])
    [] o = "captures_all" -> res
    [] o = "find" -> find_of(res)
    [] o = "find_all" -> find_all_of(res)
    [] o = "test" -> (find_of(res) # None)

Return(res) ==
  /\ rets' = [rets EXCEPT ![op] = Some(ReturnValue(op, res))]
  /\ pc' = IF op = Ops[Len(Ops)] THEN "done" ELSE "idle"
  /\ op' = "" /\ pos' = 0 /\ start' = 0 /\ jc' = 0 /\ states' = {}
  /\ caps' = NoCaps /\ end' = None /\ result' = <<>>

\* after the inner loop: the closing update at input.len(), then the Capture
Finish ==
  /\ pc = "finish"
  /\ LET position == ByteLen(input)
         closed == Closure(regex.nfa, states)
         en == IF has_accepting_state(regex.nfa, closed) THEN Some(position) ELSE end
     IN  \E order \in Orders(CaptureStates(regex, closed)) :
           LET cs == update_captures(regex, caps, order, position) IN
           IF en = None
           THEN /\ pc' = "outer"
                /\ caps' = cs /\ end' = en /\ states' = closed
                /\ UNCHANGED <<op, pos, start, jc, result, rets>>
           ELSE IF CapturePanics(cs, start, en)
           THEN /\ pc' = "panic"
                /\ caps' = cs /\ end' = en /\ states' = closed
                /\ UNCHANGED <<op, pos, start, jc, result, rets>>
           ELSE IF ~AllOf(op)
           THEN Return(<<CaptureOf(cs, start, en)>>)
           ELSE /\ result' = Append(result, CaptureOf(cs, start, en))
                /\ pc' = "outer"
                /\ caps' = cs /\ end' = en /\ states' = closed
                /\ UNCHANGED <<op, pos, start, jc, rets>>
  /\ UNCHANGED <<pattern, input, regex>>

\* the outer loop is over: matches returns result
Exhausted ==
  /\ pc = "outer"
  /\ pos >= Len(input)
  /\ Return(result)
  /\ UNCHANGED <<pattern, input, regex>>

Next == New \/ Call \/ Skip \/ BeginAttempt \/ Step \/ Finish \/ Exhausted

Spec == Init /\ [][Next]_vars

(***************************************************************************)
(* What the claims compare the program with: the language denoted by the   *)
(* AST of a pattern, written from the definition of each operator.         *)
(***************************************************************************)
Ast == parse_regex(pattern).val
Compiled == pc # "new" /\ regex.status = "ok"
Done == pc = "done"
Ret(o) == rets[o][1]

InClass(node, c) ==
  node.negate #
    (\E k \in 1..Len(node.members) :
       LET mem == node.members[k] IN
       IF mem.m = "Atom" THEN c = mem.lo
       ELSE CodePoint(c) \in CodePoint(mem.lo)..CodePoint(mem.hi))

RECURSIVE InLang(_, _)
RECURSIVE InRep(_, _, _, _)
InLang(node, w) ==
  CASE node.type = "Empty" -> w = <<>>
    [] node.type = "Character" -> w = <<node.ch>>
    [] node.type = "Wildcard" -> Len(w) = 1
    [] node.type = "CharacterClass" -> Len(w) = 1 /\ InClass(node, w[1])
    [] node.type = "Group" -> InLang(node.inner, w)
    [] node.type = "Alternation" -> InLang(node.lhs, w) \/ InLang(node.rhs, w)
    [] node.type = "Concatenation" ->
         \E k \in 0..Len(w) : InLang(node.lhs, Take(w, k)) /\ InLang(node.rhs, Drop(w, k))
    [] node.type = "Optional" -> w = <<>> \/ InLang(node.inner, w)
    [] node.type = "Plus" -> InRep(node.inner, w, 1, None)
    [] node.type = "Star" -> InRep(node.inner, w, 0, None)
    [] node.type = "Range" -> InRep(node.inner, w, node.min, node.max)

\* w is a concatenation of k words of the language of node, mn <= k <= mx
InRep(node, w, mn, mx) ==
  \/ mn = 0 /\ w = <<>>
  \/ /\ mx # Some(0)
     /\ \E k \in (IF mn = 0 THEN 1 ELSE 0)..Len(w) :
          /\ InLang(node, Take(w, k))
          /\ InRep(node, Drop(w, k), IF mn = 0 THEN 0 ELSE mn - 1,
                   IF mx = None THEN None ELSE Some(mx[1] - 1))

\* the chars i+1..j of the input are in the language of the pattern
MatchAt(i, j) == InLang(Ast, SubSeq(input, i + 1, j))
SomeMatch == \E i \in 0..Len(input) : \E j \in i..Len(input) : MatchAt(i, j)
Leftmost == SetMin({i \in 0..Len(input) : \E j \in i..Len(input) : MatchAt(i, j)})
Longest == CHOOSE j \in Leftmost..Len(input) :
             MatchAt(Leftmost, j) /\ \A l \in (j + 1)..Len(input) : ~MatchAt(Leftmost, l)

(***************************************************************************)
(* C1: for every pattern that compiles and every input, test is true iff   *)
(* find is Some iff captures is Some.                                      *)
(***************************************************************************)
C1_QueriesAgree ==
  Done => /\ (Ret("test") <=> Ret("find") # None)
          /\ (Ret("find") # None <=> Ret("captures") # None)

C1_Witness ==
  /\ Done /\ Ret("test") /\ Ret("find") # None /\ Ret("captures") # None
  /\ Ret("find")[1].start = Ret("find")[1].end

(***************************************************************************)
(* C2: test(s) is true iff some substring of s, possibly the empty one, is *)
(* in the language of the pattern; also for the empty input.               *)
(***************************************************************************)
C2_TestIffSubstring == Done => (Ret("test") <=> SomeMatch)

(***************************************************************************)
(* C3: find returns the match that starts at the smallest byte offset at   *)
(* which a match exists and ends at the largest end for that start; its    *)
(* text is the slice of the input and end >= start.                        *)
(***************************************************************************)
C3_LeftmostLongest ==
  Done /\ SomeMatch =>
    /\ Ret("find") # None
    /\ Ret("find")[1].start = ByteOffset(input, Leftmost)
    /\ Ret("find")[1].end = ByteOffset(input, Longest)
    /\ Ret("find")[1].string = SubSeq(input, Leftmost + 1, Longest)
    /\ Ret("find")[1].end >= Ret("find")[1].start

(***************************************************************************)
(* C4: the matches of find_all are ordered and do not overlap, and each is *)
(* what find returns on the suffix of the input that starts at its start,  *)
(* shifted by that start.                                                  *)
(***************************************************************************)
Shifted(m, by) == Match_new(m.start + by, m.end + by, m.string)

C4_FindAllOrdered ==
  Done =>
    LET ms == Ret("find_all") IN
    /\ \A k \in 1..(Len(ms) - 1) :
         ms[k].start < ms[k + 1].start /\ ms[k].end <= ms[k + 1].start
    /\ \A k \in 1..Len(ms) :
         /\ IsBoundary(input, ms[k].start)
         /\ LET suffix == Drop(input, CharIdx(input, ms[k].start))
                f == Regex_find(regex, suffix)
            IN  f # None /\ Shifted(f[1], ms[k].start) = ms[k]

C4_Witness ==
  /\ Done /\ Len(Ret("find_all")) >= 2
  /\ Ret("find_all")[1].end < Ret("find_all")[2].start

(***************************************************************************)
(* C5: whenever captures or find is defined, both are, and captures.get(0) *)
(* equals find (start, end and text).                                      *)
(***************************************************************************)
C5_WholeMatchIsFind ==
  Done /\ (Ret("captures") # None \/ Ret("find") # None) =>
    /\ Ret("captures") # None /\ Ret("find") # None
    /\ 0 \in DOMAIN Ret("captures")[1].captures
    /\ Ret("captures")[1].captures[0] = Ret("find")[1]

C5_Witness ==
  /\ Done /\ Ret("captures") # None
  /\ 1 \in DOMAIN Ret("captures")[1].captures
  /\ Ret("captures")[1].captures[1] # Ret("captures")[1].captures[0]

(***************************************************************************)
(* The capturing groups of an AST in the order of their opening            *)
(* parentheses, with the states the construction rules give each           *)
(* sub-automaton: 2 states for an atom, the sum for a concatenation, the   *)
(* sum plus a new start and a new accept for an alternation and for Plus   *)
(* and Star, the states of the operand for Optional and Group.             *)
(***************************************************************************)
RECURSIVE RefCount(_)
RefCount(node) ==
  CASE node.type \in {"Empty", "Character", "Wildcard", "CharacterClass"} -> 2
    [] node.type = "Concatenation" -> RefCount(node.lhs) + RefCount(node.rhs)
    [] node.type = "Alternation" -> RefCount(node.lhs) + RefCount(node.rhs) + 2
    [] node.type \in {"Plus", "Star"} -> RefCount(node.inner) + 2
    [] node.type \in {"Optional", "Group"} -> RefCount(node.inner)

\* [start, end, name] of each capturing group, outer before inner, left
\* before right
RECURSIVE RefGroups(_, _)
RefGroups(node, base) ==
  CASE node.type \in {"Empty", "Character", "Wildcard", "CharacterClass"} -> <<>>
    [] node.type = "Concatenation" ->
         RefGroups(node.lhs, base) \o RefGroups(node.rhs, base + RefCount(node.lhs))
    [] node.type = "Alternation" ->
         RefGroups(node.lhs, base + 1)
           \o RefGroups(node.rhs, base + 1 + RefCount(node.lhs))
    [] node.type \in {"Plus", "Star"} -> RefGroups(node.inner, base + 1)
    [] node.type = "Optional" -> RefGroups(node.inner, base)
    [] node.type = "Group" ->
         (IF node.is_capturing
          THEN <<[start |-> base, end |-> base + RefCount(node.inner) - 1,
                  name |-> node.name]>>
          ELSE <<>>) \o RefGroups(node.inner, base)

RECURSIVE HasRange(_)
HasRange(node) ==
  CASE node.type \in {"Empty", "Character", "Wildcard", "CharacterClass"} -> FALSE
    [] node.type \in {"Concatenation", "Alternation"} ->
         HasRange(node.lhs) \/ HasRange(node.rhs)
    [] node.type = "Range" -> TRUE
    [] OTHER -> HasRange(node.inner)

Unnamed(gs) == \A k \in 1..Len(gs) : gs[k].name = None

(***************************************************************************)
(* C6: for a pattern of literals, concatenation, alternation, ?, +, * and  *)
(* unnamed groups, capture_groups has exactly one entry per capturing      *)
(* group, in the order of the opening parentheses, and each entry holds    *)
(* the relabelled start and accept states of the group's sub-automaton.    *)
(***************************************************************************)
C6_CaptureGroupOrder ==
  Compiled /\ ~HasRange(Ast) /\ Unnamed(RefGroups(Ast, 0)) =>
    LET gs == RefGroups(Ast, 0) IN
    regex.nfa.capture_groups =
      [k \in 1..Len(gs) |-> CaptureGroup(gs[k].start, gs[k].end)]

C6_Witness ==
  /\ Compiled /\ ~HasRange(Ast) /\ Unnamed(RefGroups(Ast, 0))
  /\ Len(regex.nfa.capture_groups) = 4
  /\ regex.nfa.capture_groups[1].end = regex.nfa.capture_groups[3].end
  /\ regex.nfa.capture_groups[2].start > regex.nfa.capture_groups[1].start

(***************************************************************************)
(* C7: a named group is appended to the ordered capture list like an       *)
(* unnamed one: when the k-th opening parenthesis of a capturing group     *)
(* belongs to a named group that is bound in the match, captures.get(k) is *)
(* defined and equals captures.get_name(NAME).                             *)
(***************************************************************************)
C7_NamedGroupIndexed ==
  Done /\ ~HasRange(Ast) /\ Ret("captures") # None =>
    LET c == Ret("captures")[1]
        gs == RefGroups(Ast, 0)
    IN  \A k \in 1..Len(gs) :
          /\ gs[k].name # None
          /\ \A l \in 1..Len(gs) : gs[l].name = gs[k].name => l = k
          /\ gs[k].name[1] \in DOMAIN c.named_captures
          => /\ k \in DOMAIN c.captures
             /\ c.captures[k] = c.named_captures[gs[k].name[1]]

(***************************************************************************)
(* C8: for a pattern that is a concatenation of groups, literals and       *)
(* quantified atoms with no group under a quantifier, and an input whose   *)
(* leftmost-longest match splits among the parts in exactly one way,       *)
(* captures binds every capturing group to the span its part matched: by   *)
(* index for the unnamed groups (non-capturing groups take no index), by   *)
(* name for the named ones.                                                *)
(***************************************************************************)
RECURSIVE GroupFree(_)
GroupFree(node) ==
  CASE node.type \in {"Empty", "Character", "Wildcard", "CharacterClass"} -> TRUE
    [] node.type \in {"Concatenation", "Alternation"} ->
         GroupFree(node.lhs) /\ GroupFree(node.rhs)
    [] node.type = "Group" -> FALSE
    [] OTHER -> GroupFree(node.inner)

\* the parts of a right-nested concatenation
RECURSIVE PartsOf(_)
PartsOf(node) ==
  IF node.type = "Concatenation" THEN <<node.lhs>> \o PartsOf(node.rhs) ELSE <<node>>

C8Shape(parts) ==
  /\ \A k \in 1..Len(parts) :
       \/ GroupFree(parts[k])
       \/ parts[k].type = "Group" /\ GroupFree(parts[k].inner)
  /\ \E k \in 1..Len(parts) : parts[k].type = "Group" /\ parts[k].is_capturing

\* the ways to cut w (chars lo+1..hi of the input) among the parts: the
\* sequences of the char offsets at which each part ends
RECURSIVE SplitsOf(_, _, _)
SplitsOf(parts, lo, hi) ==
  IF Len(parts) = 1
  THEN IF InLang(parts[1], SubSeq(input, lo + 1, hi)) THEN {<<hi>>} ELSE {}
  ELSE UNION {{<<m>> \o r : r \in SplitsOf(Tail(parts), m, hi)} :
                m \in {m \in lo..hi : InLang(parts[1], SubSeq(input, lo + 1, m))}}

\* the index of the k-th part among the unnamed capturing groups
IndexOfPart(parts, k) ==
  Cardinality({l \in 1..k : /\ parts[l].type = "Group" /\ parts[l].is_capturing
                            /\ parts[l].name = None})

C8_GroupsBindTheirSpan ==
  Done /\ ~HasRange(Ast) /\ C8Shape(PartsOf(Ast)) /\ Ret("captures") # None =>
    LET c == Ret("captures")[1]
        parts == PartsOf(Ast)
        whole == c.captures[0]
        lo == CharIdx(input, whole.start)
        hi == CharIdx(input, whole.end)
        splits == SplitsOf(parts, lo, hi)
    IN  Cardinality(splits) = 1 =>
          LET cut == CHOOSE x \in splits : TRUE IN
          \A k \in 1..Len(parts) :
            parts[k].type = "Group" /\ parts[k].is_capturing =>
              LET from == IF k = 1 THEN lo ELSE cut[k - 1]
                  m == Match_new(ByteOffset(input, from), ByteOffset(input, cut[k]),
                                 SubSeq(input, from + 1, cut[k]))
              IN  IF parts[k].name = None
                  THEN /\ IndexOfPart(parts, k) \in DOMAIN c.captures
                       /\ c.captures[IndexOfPart(parts, k)] = m
                  ELSE /\ parts[k].name[1] \in DOMAIN c.named_captures
                       /\ c.named_captures[parts[k].name[1]] = m

(***************************************************************************)
(* C9: for the pattern [0-9]+(\.[0-9]+)? and the input 12.50, find returns *)
(* the span (0,5) and captures.get(1) is the match (2,5) with the text     *)
(* .50, on every execution.                                                *)
(***************************************************************************)
C9_NumberCapture ==
  Done /\ pattern = Pat_number /\ input = <<"1", "2", ".", "5", "0">> =>
    /\ Ret("find") # None
    /\ Ret("find")[1].start = 0 /\ Ret("find")[1].end = 5
    /\ Ret("captures") # None
    /\ 1 \in DOMAIN Ret("captures")[1].captures
    /\ Ret("captures")[1].captures[1] = Match_new(2, 5, <<".", "5", "0">>)

(***************************************************************************)
(* C10: Regex::new rejects with RangeOutOfOrder every pattern with a class *)
(* range whose lower codepoint is greater than its upper one; every        *)
(* Range(lo, hi) of a produced AST has lo <= hi.                           *)
(***************************************************************************)
RECURSIVE RangesInOrder(_)
RangesInOrder(node) ==
  CASE node.type \in {"Empty", "Character", "Wildcard"} -> TRUE
    [] node.type = "CharacterClass" ->
         \A k \in 1..Len(node.members) :
           node.members[k].m = "Range" =>
             CodePoint(node.members[k].lo) <= CodePoint(node.members[k].hi)
    [] node.type \in {"Concatenation", "Alternation"} ->
         RangesInOrder(node.lhs) /\ RangesInOrder(node.rhs)
    [] OTHER -> RangesInOrder(node.inner)

C10_RangeOutOfOrderRejected ==
  /\ pc # "new" /\ parse_regex(pattern).ok => RangesInOrder(Ast)
  /\ pc # "new" /\ pattern = <<"[", "z", "-", "a", "]">> =>
       regex.status = "err" /\ regex.err = "RangeOutOfOrder"

(***************************************************************************)
(* A second family of inputs: counted repetitions, escapes inside and      *)
(* outside a class, the shapes of a group, and literals of several bytes.  *)
(* The Regex is constructed and queried exactly as in Spec.                *)
(***************************************************************************)
MaxRep == 3
MaxRangeInput == 4

Digit(n) == <<"0", "1", "2", "3", "4", "5", "6", "7", "8", "9">>[n + 1]

RangeOperands == {<<"a">>, <<"(", ":", "?", "a", "b", ")">>}

RangeSuffixes ==
  {<<"{", Digit(n), "}">> : n \in 0..MaxRep}
    \cup {<<"{", Digit(n), ",", "}">> : n \in 0..MaxRep}
    \cup {<<"{", Digit(n), ",", Digit(m), "}">> : n \in 0..MaxRep, m \in 0..MaxRep}

\* a capturing operand, repeated without optional copies or with one
CapturingSuffixes ==
  {<<"{", Digit(n), "}">> : n \in 0..MaxRep}
    \cup {<<"{", Digit(n), ",", "}">> : n \in 0..MaxRep}
    \cup {<<"{", "1", ",", "2", "}">>}

RangePatterns ==
  {x \o q \o t : x \in RangeOperands, q \in RangeSuffixes, t \in {<<>>, <<"b">>}}
    \cup {<<"(", "a", "|", "b", ")">> \o q : q \in CapturingSuffixes}

RangeInputs == UNION {StringsOf(InputAlphabet, n) : n \in 0..MaxRangeInput}

\* the characters written after a backslash
EscapeChars ==
  {"\\", "[", "]", "(", ")", "{", "}", ".", "?", "+", "*", "-",
   "d", "D", "w", "W", "s", "S", "a", "n", "1", "ko"}

EscapePatterns ==
  {<<"[", "\\", x, "]">> : x \in EscapeChars} \cup {<<"\\", x>> : x \in EscapeChars}

GroupNames ==
  {<<>>, <<"n">>, <<"h", "m">>, <<"A", "Z">>, <<"n", "1">>, <<"1">>, <<"e'">>,
   <<"n", "ko">>}

GroupBodies == {<<"a">>, <<"a", "|", "b">>}

GroupClosers == {<<")">>, <<>>}

GroupPatterns ==
  {<<"(", "?", "<">> \o nm \o gt \o body \o cl :
     nm \in GroupNames, gt \in {<<">">>, <<>>}, body \in GroupBodies, cl \in GroupClosers}
    \cup {<<"(", ":", "?">> \o body \o cl : body \in GroupBodies, cl \in GroupClosers}
    \cup {<<"(">> \o body \o cl : body \in GroupBodies, cl \in GroupClosers}
    \cup {<<"(", "?">> \o body \o cl : body \in GroupBodies, cl \in GroupClosers}

ParseInputs == {<<"a">>, <<"1", "a", "b">>, <<"-", "a">>}

LiteralPatterns ==
  {<<"ko", "ko">>, <<"a", "ko">>, <<"ko", "a">>, <<"a", "b">>, <<"e'", "a">>,
   <<"a", "e'">>, <<"ko", "de", "ko">>, <<"a", "b", "a">>}

LiteralInputs ==
  {<<"ko", "ko", "de", "ko", "ko", "de">>, <<"a", "ko", "a", "ko">>,
   <<"ko", "a", "e'", "a">>, <<"a", "b", "a", "b", "a">>}

ExtCases ==
  (RangePatterns \X RangeInputs)
    \cup ((EscapePatterns \cup GroupPatterns) \X ParseInputs)
    \cup (LiteralPatterns \X LiteralInputs)
    \cup {<<<<"e", "{", "3", ",", "}">>, <<"e", "e", "e", "e", "e">>>>,
          <<<<"e", "{", "1", ",", "3", "}">>, <<"e", "e", "e", "e">>>>,
          <<<<"(", "ko", ")", "(", "?", "<", "n", ">", "de", ")">>,
            <<"e'", "ko", "de", "a">>>>}

InitExt ==
  /\ \E c \in ExtCases : pattern = c[1] /\ input = c[2]
  /\ regex = <<>>
  /\ pc = "new"
  /\ rets = NoRets
  /\ Idle

SpecExt == InitExt /\ [][Next]_vars

Rejected(e) == pc # "new" /\ regex.status = "err" /\ regex.err = e
Accepted == pc # "new" /\ regex.status = "ok"

(***************************************************************************)
(* C11: a backslash inside a class follows the rules of a backslash        *)
(* outside: before a metacharacter it gives that literal, before one of    *)
(* d D w W s S it is accepted as a class member, and before any other      *)
(* codepoint it is InvalidEscapeSequence.                                  *)
(***************************************************************************)
MetaChars == {"\\", "[", "]", "(", ")", "{", "}", ".", "?", "+", "*", "-"}
AliasChars == {"d", "D", "w", "W", "s", "S"}

C11_ClassEscapes ==
  pc # "new" =>
    \A x \in EscapeChars :
      /\ pattern = <<"[", "\\", x, "]">> =>
           IF x \in MetaChars THEN Accepted /\ Ast = class(FALSE, <<Atom(x)>>)
           ELSE IF x \in AliasChars THEN Accepted
           ELSE Rejected("InvalidEscapeSequence")
      /\ pattern = <<"\\", x>> =>
           IF x \in MetaChars THEN Accepted /\ Ast = Character(x)
           ELSE IF x \in AliasChars THEN Accepted /\ Ast.type = "CharacterClass"
           ELSE Rejected("InvalidEscapeSequence")

(***************************************************************************)
(* C12: after ( the characters :? give a non-capturing group, ?<NAME> with *)
(* NAME one or more letters of A-Z a-z gives a capturing group of that     *)
(* name, anything else a capturing unnamed group; an empty name, a name    *)
(* with another character or a missing > is InvalidCaptureName, and a      *)
(* missing ) is MissingCharacter(')').                                     *)
(***************************************************************************)
AsciiLetter(c) == CodePoint(c) \in (65..90) \cup (97..122)

BodyAst(body) ==
  IF body = <<"a">> THEN Character("a")
  ELSE alternation(Character("a"), Character("b"))

Closed(cl, node) ==
  IF cl = <<")">> THEN Accepted /\ Ast = node
  ELSE Rejected("MissingCharacter(')')")

C12_GroupShapes ==
  pc # "new" =>
    \A body \in GroupBodies, cl \in GroupClosers :
      /\ pattern = <<"(", ":", "?">> \o body \o cl =>
           Closed(cl, group(BodyAst(body), FALSE, None))
      /\ pattern = <<"(">> \o body \o cl =>
           Closed(cl, group(BodyAst(body), TRUE, None))
      /\ \A nm \in GroupNames, gt \in {<<">">>, <<>>} :
           pattern = <<"(", "?", "<">> \o nm \o gt \o body \o cl =>
             IF nm # <<>> /\ gt = <<">">> /\ \A k \in 1..Len(nm) : AsciiLetter(nm[k])
             THEN Closed(cl, group(BodyAst(body), TRUE, Some(nm)))
             ELSE Rejected("InvalidCaptureName")

(***************************************************************************)
(* wasm.rs: the adapter reports codepoint offsets through a map from byte  *)
(* offsets to char indices.                                                *)
(***************************************************************************)
get_char_index(s) ==
  [b \in {ByteOffset(s, k) : k \in 0..Len(s)} |-> CharIdx(s, b)]

from_match(value, index_map) ==
  [start |-> index_map[value.start], end |-> index_map[value.end]]

RegexEngine_find_all(ms, s) ==
  [k \in 1..Len(ms) |-> from_match(ms[k], get_char_index(s))]

(***************************************************************************)
(* C13: a pattern of n >= 2 literal codepoints, of one or several bytes    *)
(* each, compiles to the concatenation of the n literals, and find_all     *)
(* returns the non-overlapping occurrences of the sequence; ko ko on       *)
(* ko ko de ko ko de gives the codepoint spans (0,2) and (3,5).            *)
(***************************************************************************)
RECURSIVE RefConcat(_)
RefConcat(p) ==
  IF Len(p) = 1 THEN Character(p[1])
  ELSE concatenation(Character(p[1]), RefConcat(Tail(p)))

\* the occurrences of p in s from char index i on, leftmost first
RECURSIVE Occurrences(_, _, _)
Occurrences(p, s, i) ==
  IF i + Len(p) > Len(s) THEN <<>>
  ELSE IF SubSeq(s, i + 1, i + Len(p)) = p
       THEN <<[start |-> i, end |-> i + Len(p)]>> \o Occurrences(p, s, i + Len(p))
       ELSE Occurrences(p, s, i + 1)

C13_MultibyteLiterals ==
  /\ pc # "new" /\ pattern \in LiteralPatterns =>
       Accepted /\ Ast = RefConcat(pattern)
  /\ Done /\ pattern \in LiteralPatterns =>
       RegexEngine_find_all(Ret("find_all"), input) = Occurrences(pattern, input, 0)
  /\ Done /\ pattern = <<"ko", "ko">>
          /\ input = <<"ko", "ko", "de", "ko", "ko", "de">> =>
       RegexEngine_find_all(Ret("find_all"), input)
         = <<[start |-> 0, end |-> 2], [start |-> 3, end |-> 5]>>

(***************************************************************************)
(* C14: the matcher is total.  No query on a compiled Regex fails, every   *)
(* call in progress can take its next step, and every span of a returned   *)
(* whole match or group has start <= end <= input length with both offsets *)
(* on codepoint boundaries.                                                *)
(***************************************************************************)
ValidSpan(m) ==
  /\ m.start <= m.end /\ m.end <= ByteLen(input)
  /\ IsBoundary(input, m.start) /\ IsBoundary(input, m.end)
  /\ m.string = Slice(input, m.start, m.end)

ValidCapture(c) ==
  /\ \A k \in DOMAIN c.captures : ValidSpan(c.captures[k])
  /\ \A n \in DOMAIN c.named_captures : ValidSpan(c.named_captures[n])

\* a call in progress is at a point from which its next step is defined
CanStep ==
  /\ pc = "idle" => \E k \in 1..Len(Ops) : rets[Ops[k]] = None
  /\ pc = "outer" /\ pos < Len(input) =>
       LET st == StartOf(ByteOffset(input, pos)) IN
       IsBoundary(input, st) /\ st <= ByteLen(input)
  /\ pc = "inner" => jc < Len(input)

C14_MatcherTotal ==
  /\ ~(pc = "panic" /\ regex.status = "ok")
  /\ CanStep
  /\ \A k \in 1..Len(result) : ValidCapture(result[k])
  /\ Done =>
       /\ \A k \in 1..Len(Ret("captures_all")) : ValidCapture(Ret("captures_all")[k])
       /\ \A k \in 1..Len(Ret("find_all")) : ValidSpan(Ret("find_all")[k])
       /\ Ret("find") # None => ValidSpan(Ret("find")[1])
       /\ Ret("captures") # None => ValidCapture(Ret("captures")[1])

C14_Witness ==
  /\ Done /\ input = <<"e'", "ko", "de", "a">>
  /\ Ret("captures") # None
  /\ 1 \in DOMAIN Ret("captures")[1].captures
  /\ Ret("captures")[1].captures[1] = Match_new(2, 5, <<"ko">>)
  /\ <<"n">> \in DOMAIN Ret("captures")[1].named_captures
  /\ Ret("captures")[1].named_captures[<<"n">>] = Match_new(5, 8, <<"de">>)

\* the Range nodes of an AST
RECURSIVE RangeNodes(_)
RangeNodes(node) ==
  CASE node.type \in {"Empty", "Character", "Wildcard", "CharacterClass"} -> {}
    [] node.type \in {"Concatenation", "Alternation"} ->
         RangeNodes(node.lhs) \cup RangeNodes(node.rhs)
    [] node.type = "Range" -> {node} \cup RangeNodes(node.inner)
    [] OTHER -> RangeNodes(node.inner)

Parses == parse_regex(pattern).ok

\* find and test return what the language of the AST requires
AgreesWithLanguage ==
  /\ Ret("test") <=> SomeMatch
  /\ SomeMatch =>
       /\ Ret("find") # None
       /\ Ret("find")[1].start = ByteOffset(input, Leftmost)
       /\ Ret("find")[1].end = ByteOffset(input, Longest)

(***************************************************************************)
(* C15: X{n,} with n >= 1, n = 1 included, compiles, and the automaton     *)
(* accepts exactly the concatenations of k >= n words of L(X); e{3,}       *)
(* rejects ee and finds (0,5) on eeeee.                                    *)
(***************************************************************************)
AtLeast == Parses /\ \E r \in RangeNodes(Ast) : r.max = None /\ r.min >= 1

C15_AtLeastRepetition ==
  /\ pc # "new" /\ AtLeast => Accepted
  /\ Done /\ AtLeast => AgreesWithLanguage
  /\ Done /\ pattern = <<"e", "{", "3", ",", "}">> /\ input = <<"e", "e", "e", "e", "e">> =>
       Ret("find") = Some(Match_new(0, 5, input))

(***************************************************************************)
(* C16: for 1 <= n <= m, X{n} compiles to n concatenated copies of X and   *)
(* X{n,m} to n copies of X followed by m - n copies of Optional(X); the    *)
(* automaton accepts exactly the concatenations of k words of L(X) with    *)
(* n <= k <= m; e{3} rejects ee and e{1,3} finds (0,3) on eeee.            *)
(***************************************************************************)
RECURSIVE Copies(_, _, _)
Copies(acc, x, k) ==
  IF k <= 0 THEN acc ELSE Copies(concatenation(acc, x), x, k - 1)

\* the AST of n copies of x followed by m - n copies of Optional(x)
Expanded(x, n, m) == Copies(Copies(x, x, n - 1), optional(x), m - n)

BoundedRange ==
  /\ Parses /\ RangeNodes(Ast) # {}
  /\ \A r \in RangeNodes(Ast) : r.max # None /\ 1 <= r.min /\ r.min <= r.max[1]

C16_BoundedRepetition ==
  /\ pc # "new" /\ BoundedRange => Accepted
  /\ pc # "new" /\ BoundedRange /\ Ast.type = "Range" =>
       regex.nfa = Nfa_from(Expanded(Ast.inner, Ast.min, Ast.max[1]))
  /\ Done /\ BoundedRange => AgreesWithLanguage

C16_Witness ==
  /\ Done /\ pattern = <<"e", "{", "1", ",", "3", "}">> /\ input = <<"e", "e", "e", "e">>
  /\ Ret("find") = Some(Match_new(0, 3, <<"e", "e", "e">>))

(***************************************************************************)
(* C17: during one search attempt a start recorded for a group at an       *)
(* earlier position is never overwritten when the group's start state      *)
(* enters the frontier again: the start is set only while the group has    *)
(* none.                                                                   *)
(***************************************************************************)
StartsKept(old, new) ==
  \A k \in DOMAIN old \cap DOMAIN new :
    old[k].start # None => new[k].start = old[k].start

\* a step of an attempt keeps the recorded starts
AttemptKeepsStarts ==
  pc \in {"inner", "finish"} =>
    /\ StartsKept(caps.captures, caps'.captures)
    /\ StartsKept(caps.named_captures, caps'.named_captures)

C17_StartNotOverwritten == [][AttemptKeepsStarts]_vars

(***************************************************************************)
(* C18: a counted repetition with min = 0 is built from an Empty automaton *)
(* instead of a copy of X: X{0} accepts only the empty string and X{0,m}   *)
(* the concatenations of k words of L(X) with 0 <= k <= m.  The inputs are *)
(* the non-empty ones, on which a match of the empty string is reported.   *)
(***************************************************************************)
ZeroMin ==
  /\ Parses /\ RangeNodes(Ast) # {}
  /\ \A r \in RangeNodes(Ast) : r.min = 0 /\ r.max # None

C18_ZeroMinimum ==
  /\ pc # "new" /\ ZeroMin => Accepted
  /\ pc # "new" /\ ZeroMin /\ Ast.type = "Range" =>
       regex.nfa = Nfa_from(Copies(Empty, optional(Ast.inner), Ast.max[1]))
  /\ Done /\ ZeroMin /\ input # <<>> => AgreesWithLanguage

(***************************************************************************)
(* C19: X{n,m} with m < n is either rejected by Regex::new or compiles to  *)
(* an automaton that matches nothing: test is false for every input.       *)
(***************************************************************************)
Inverted ==
  /\ Parses
  /\ \E r \in RangeNodes(Ast) : r.max # None /\ r.max[1] < r.min

C19_InvertedRange ==
  pc # "new" /\ Inverted =>
    \/ regex.status = "err"
    \/ regex.status = "ok" /\ (Done => ~Ret("test"))

(***************************************************************************)
(* C20: every automaton a constructor returns keeps the shape the others   *)
(* rely on: the ids that occur as a source or a target are exactly         *)
(* 0..state_count-1 (so state_count = 1 + the largest id), state 0 is the  *)
(* start state and has an outgoing transition, and state_count-1 is the    *)
(* only accepting state and has no outgoing transition.  It is stated for  *)
(* the automaton of every node of the parsed pattern.                      *)
(***************************************************************************)
RECURSIVE Nodes(_)
Nodes(node) ==
  {node} \cup
    CASE node.type \in {"Empty", "Character", "Wildcard", "CharacterClass"} -> {}
      [] node.type \in {"Concatenation", "Alternation"} ->
           Nodes(node.lhs) \cup Nodes(node.rhs)
      [] OTHER -> Nodes(node.inner)

Sources(nfa) == {s \in DOMAIN nfa.transitions : nfa.transitions[s] # <<>>}
Targets(nfa) ==
  UNION {{nfa.transitions[s][k].end : k \in DOMAIN nfa.transitions[s]} :
           s \in DOMAIN nfa.transitions}
Ids(nfa) == Sources(nfa) \cup Targets(nfa)

WellShaped(nfa) ==
  /\ Ids(nfa) = 0..(nfa.state_count - 1)
  /\ START \in Sources(nfa)
  /\ Nfa_end(nfa) \notin Sources(nfa)
  /\ \A s \in Ids(nfa) : is_accepting(nfa, s) <=> s = nfa.state_count - 1

C20_ShapeInvariant ==
  Accepted => /\ WellShaped(regex.nfa)
              /\ \A node \in Nodes(Ast) : WellShaped(Nfa_from(node))

(***************************************************************************)
(* A third family of arguments: patterns over literals, the wildcard and   *)
(* classes with their quantifiers, pattern strings over the characters of  *)
(* the grammar, and patterns whose groups close after the last accepting   *)
(* position or stand under a counted repetition.  The Regex is constructed *)
(* and queried exactly as in Spec.                                         *)
(***************************************************************************)
MaxGrammarLen == 4

LangAtoms ==
  {<<"a">>, <<".">>, <<"[", "a", "b", "]">>, <<"[", "^", "a", "]">>,
   <<"[", "^", "a", "-", "b", "]">>}

LangItems == {x \o q : x \in LangAtoms, q \in {<<>>, <<"*">>, <<"+">>, <<"?">>}}

LangPatterns ==
  LangItems
    \cup {x \o j \o y : x \in {<<"a">>, <<"[", "^", "a", "]">>}, j \in {<<>>, <<"|">>},
                        y \in LangItems}
    \cup {<<"(", ":", "?">> \o x \o <<"|">> \o y \o <<")">> \o q :
            x \in {<<"a">>, <<"[", "^", "a", "]">>}, y \in {<<>>, <<".">>, <<"c">>},
            q \in {<<"*">>, <<"+">>}}

LangInputs == UNION {StringsOf({"a", "c"}, n) : n \in 0..MaxInputLen}

GrammarChars == {"a", "b", "|", "(", ")", "?", "*"}

GrammarPatterns ==
  UNION {StringsOf(GrammarChars, n) : n \in 0..MaxGrammarLen}
    \cup {<<"l", "e", "s", "?">>, <<"l", "a", "|", "l", "e">>, <<"a", ")", "b">>,
          <<"a", "b", "|", "a", "b">>, <<"a", "|", "b", "|", "a", "b">>,
          <<"(", "a", "|", "b", "a", ")", "b">>, <<"a", "b", "a", "b", "a">>}

GrammarInputs == {<<"a">>}

CaptureCases ==
  {<<<<"a", "|", "(", "a", "b", ")", "c">>, <<"a", "b", "d">>>>,
   <<<<"a", "|", "(", "a", "b", ")", "c">>, <<"a", "b">>>>,
   <<<<"a", "|", "(", "a", "b", ")", "c">>, <<"a", "b", "c">>>>,
   <<<<"(", "a", ")", "{", "2", "}", "(", "b", ")">>, <<"a", "a", "b">>>>,
   <<<<"(", "a", ")", "{", "1", ",", "2", "}", "(", "b", ")">>, <<"a", "b">>>>,
   <<<<"(", "a", ")", "{", "2", ",", "}", "(", "b", ")">>, <<"a", "a", "b">>>>,
   <<<<"(", "a", ")", "{", "1", "}", "(", "b", ")">>, <<"a", "b">>>>}

FormCases ==
  (LangPatterns \X LangInputs) \cup (GrammarPatterns \X GrammarInputs) \cup CaptureCases

InitForms ==
  /\ \E c \in FormCases : pattern = c[1] /\ input = c[2]
  /\ regex = <<>>
  /\ pc = "new"
  /\ rets = NoRets
  /\ Idle

SpecForms == InitForms /\ [][Next]_vars

(***************************************************************************)
(* C21: for an AST without a counted repetition, the words that drive the  *)
(* compiled automaton from state 0 to state state_count - 1 (closure, one  *)
(* consuming step per codepoint, final closure) are exactly the words of   *)
(* the language of the AST: Optional zero or one, Plus one or more, Star   *)
(* zero or more iterations, Alternation the union, Concatenation the       *)
(* product, a class edge accepts c iff (c is a member) differs from negate.*)
(***************************************************************************)
RECURSIVE Run(_, _, _)
Run(nfa, sts, w) ==
  IF w = <<>> THEN Closure(nfa, sts)
  ELSE Run(nfa, NextStates(nfa, Closure(nfa, sts), Head(w)), Tail(w))

Drives(nfa, w) == Nfa_end(nfa) \in Run(nfa, {START}, w)

C21_AutomatonLanguage ==
  Accepted /\ ~HasRange(Ast) => (Drives(regex.nfa, input) <=> InLang(Ast, input))

C21_Witness ==
  /\ Accepted /\ pattern = <<"[", "^", "a", "]", "*">> /\ input = <<"c", "c">>
  /\ Drives(regex.nfa, input) /\ ~Drives(regex.nfa, <<"c", "a">>)

(***************************************************************************)
(* C22: for every state s of a compiled automaton, epsilon_closure(s)      *)
(* terminates, also when epsilon edges form a cycle, and is the smallest   *)
(* set that contains s and is closed under epsilon transitions: every      *)
(* other member is entered by an epsilon edge from a member, so a state    *)
(* reached only through a consuming edge is not in it.                     *)
(***************************************************************************)
EpsilonEdge(nfa, u, t) ==
  /\ u \in DOMAIN nfa.transitions
  /\ \E k \in 1..Len(nfa.transitions[u]) :
       nfa.transitions[u][k].kind = Epsilon /\ nfa.transitions[u][k].end = t

EpsilonStep(nfa, S) == S \cup {t \in Ids(nfa) : \E u \in S : EpsilonEdge(nfa, u, t)}

\* the least fixed point of EpsilonStep above S
RECURSIVE LeastClosed(_, _)
LeastClosed(nfa, S) ==
  IF EpsilonStep(nfa, S) = S THEN S ELSE LeastClosed(nfa, EpsilonStep(nfa, S))

OnCycle(nfa, s) ==
  \E t \in epsilon_closure(nfa, s) \ {s} : s \in epsilon_closure(nfa, t)

C22_EpsilonClosure ==
  Accepted =>
    \A s \in Ids(regex.nfa) :
      LET closure == epsilon_closure(regex.nfa, s) IN
      /\ closure = LeastClosed(regex.nfa, {s})
      /\ \A t \in closure \ {s} : \E u \in closure : EpsilonEdge(regex.nfa, u, t)

C22_Witness ==
  /\ Accepted /\ pattern = <<"a", "*">>
  /\ OnCycle(regex.nfa, 1)
  /\ epsilon_closure(regex.nfa, 0) = {0, 1, 2, 3}
  /\ epsilon_closure(regex.nfa, 2) = {1, 2, 3}

(***************************************************************************)
(* C23: in find_all and captures_all, the attempt that follows a reported  *)
(* match (s, e) starts at e when e > s and at the next codepoint boundary  *)
(* after s when e = s; at most one match is reported per start position;   *)
(* and the call terminates on every input, also for a pattern that matches *)
(* the empty string: each step of a call returns or decreases a natural    *)
(* number, the iterations the two loops have left.                         *)
(***************************************************************************)
\* the whole match of the Capture reported last
LastMatch == result[Len(result)].captures[0]

\* a match has been reported and no attempt has begun since
JustReported == pc = "outer" /\ AllOf(op) /\ result # <<>> /\ end # None

AttemptAfterMatch ==
  JustReported /\ pc' = "inner" =>
    start' = IF LastMatch.end > LastMatch.start THEN LastMatch.end
             ELSE ByteOffset(input, CharIdx(input, LastMatch.start) + 1)

OneMatchPerStart ==
  \A k \in 1..(Len(result) - 1) :
    result[k].captures[0].start < result[k + 1].captures[0].start

\* the iterations the loops of Regex::matches have left: those of the outer
\* loop weigh more than all the inner loop can make
Rank ==
  (Len(input) - pos) * (Len(input) + 3)
    + (CASE pc = "inner" -> Len(input) - jc + 2
         [] pc = "finish" -> 1
         [] OTHER -> 0)

InCall == pc \in {"outer", "inner", "finish"}

\* every step of a call returns or leaves fewer iterations
CallAdvances == InCall => (~InCall' \/ (op' = op /\ Rank' < Rank))

C23_FindAllAdvances ==
  /\ [][AttemptAfterMatch]_vars
  /\ []OneMatchPerStart
  /\ [][CallAdvances]_vars
  /\ [](Rank >= 0)

C23_Witness ==
  /\ Done /\ pattern = <<"a", "*">> /\ input = <<"b", "a", "a">>
  /\ Len(Ret("find_all")) = 2
  /\ Ret("find_all")[1].start = 0 /\ Ret("find_all")[1].end = 0
  /\ Ret("find_all")[2].start = 1 /\ Ret("find_all")[2].end = 3

(***************************************************************************)
(* C24: the parser gives a quantifier the single atom before it, nests a   *)
(* run of atoms to the right, Concat(x1, Concat(x2, ...)), gives `|` whole *)
(* concatenations as operands and nests it to the right, and reads a group *)
(* body as a full alternation: `les?` is Concat(l, Concat(e, Optional(s))) *)
(* and `la|le` is Alternation(Concat(l, a), Concat(l, e)).  It is stated   *)
(* for the patterns over literals, ( ) | ? * in which the parentheses      *)
(* balance, each quantifier follows an atom and each `|` follows an atom   *)
(* or a quantifier, against a reading of the pattern that cuts it at the   *)
(* operators.                                                              *)
(***************************************************************************)
Quantifiers == {"?", "*"}

\* the number of groups open before the k-th char of p
RECURSIVE Depth(_, _)
Depth(p, k) ==
  IF k <= 1 THEN 0
  ELSE Depth(p, k - 1)
         + (CASE p[k - 1] = "(" -> 1 [] p[k - 1] = ")" -> -1 [] OTHER -> 0)

WellFormed(p) ==
  /\ \A k \in 1..(Len(p) + 1) : Depth(p, k) >= 0
  /\ Depth(p, Len(p) + 1) = 0
  /\ \A k \in 1..Len(p) :
       /\ p[k] \in Quantifiers => k > 1 /\ p[k - 1] \notin Quantifiers \cup {"(", "|"}
       /\ p[k] = "|" => k > 1 /\ p[k - 1] \notin {"(", "|"}

\* the positions of the `|` of p outside every group
Bars(p) == {k \in 1..Len(p) : p[k] = "|" /\ Depth(p, k) = 0}

\* the length of the atom p begins with: a char, or a group up to its `)`
AtomLen(p) ==
  IF p[1] = "(" THEN SetMin({k \in 2..Len(p) : Depth(p, k + 1) = 0}) ELSE 1

RECURSIVE RefAlternation(_)
RECURSIVE RefSequence(_)
RefAtom(a) ==
  IF a[1] = "(" THEN group(RefAlternation(SubSeq(a, 2, Len(a) - 1)), TRUE, None)
  ELSE Character(a[1])

RefItem(a, q) ==
  CASE q = <<>> -> RefAtom(a)
    [] q = <<"?">> -> optional(RefAtom(a))
    [] q = <<"*">> -> star(RefAtom(a))

RefSequenceFrom(p, n, m) ==
  IF m = Len(p) THEN RefItem(Take(p, n), SubSeq(p, n + 1, m))
  ELSE concatenation(RefItem(Take(p, n), SubSeq(p, n + 1, m)), RefSequence(Drop(p, m)))

RefSequence(p) ==
  IF p = <<>> THEN Empty
  ELSE RefSequenceFrom(p, AtomLen(p),
         IF AtomLen(p) < Len(p) /\ p[AtomLen(p) + 1] \in Quantifiers
         THEN AtomLen(p) + 1 ELSE AtomLen(p))

RefAlternation(p) ==
  IF Bars(p) = {} THEN RefSequence(p)
  ELSE alternation(RefSequence(Take(p, SetMin(Bars(p)) - 1)),
                   RefAlternation(Drop(p, SetMin(Bars(p)))))

C24_Precedence ==
  /\ pc # "new" /\ pattern \in GrammarPatterns /\ WellFormed(pattern) =>
       /\ Accepted
       /\ Ast = RefAlternation(pattern)
       /\ regex.nfa = Nfa_from(RefAlternation(pattern))
  /\ pc # "new" /\ pattern = <<"l", "a", "|", "l", "e">> =>
       Ast = alternation(concatenation(Character("l"), Character("a")),
                         concatenation(Character("l"), Character("e")))
  /\ pc # "new" /\ pattern = <<"a", "b", "a", "b", "a">> =>
       Ast = concatenation(Character("a"), concatenation(Character("b"),
               concatenation(Character("a"),
                 concatenation(Character("b"), Character("a")))))
  /\ pc # "new" /\ pattern = <<"(", "a", "|", "b", "a", ")", "b">> =>
       Ast = concatenation(
               group(alternation(Character("a"),
                                 concatenation(Character("b"), Character("a"))),
                     TRUE, None),
               Character("b"))

C24_Witness ==
  /\ Accepted /\ pattern = <<"l", "e", "s", "?">> /\ WellFormed(pattern)
  /\ Ast = concatenation(Character("l"),
             concatenation(Character("e"), optional(Character("s"))))

(***************************************************************************)
(* C27: parse_regex returns an AST only when the whole pattern has been    *)
(* consumed: when the top-level alternation stops before the end of the    *)
(* pattern, as at the `)` of `a)b`, Regex::new returns an error and never  *)
(* the AST of a proper prefix.                                             *)
(***************************************************************************)
LeftOver ==
  IF parse_alternation(pattern).ok THEN parse_alternation(pattern).rest ELSE <<>>

C27_WholePatternConsumed == pc # "new" /\ LeftOver # <<>> => regex.status = "err"

(***************************************************************************)
(* C25: for a compiled Regex and an input, the Capture that captures       *)
(* returns (and each element of captures_all) does not depend on the order *)
(* in which update_captures visits the states of the frontier: every       *)
(* execution returns the bindings of the execution that visits them in one *)
(* fixed order.                                                            *)
(***************************************************************************)
\* the position the states of an attempt are updated at, k chars into s
PositionAt(s, k) == IF k >= Len(s) THEN ByteLen(s) ELSE ByteOffset(s, k)

\* the tables after update_captures visited the states in the fixed order
FixedOrderUpdate(re, cs, closed, position) ==
  update_captures(re, cs, SetToSeq(CaptureStates(re, closed)), position)

EndAfter(nfa, closed, position, en) ==
  IF has_accepting_state(nfa, closed) THEN Some(position) ELSE en

\* one attempt of Regex::matches from char k with the given states: the
\* capture tables and the end it leaves
RECURSIVE AttemptFrom(_, _, _, _, _, _)
AttemptAfter(re, s, k, closed, cs, en) ==
  IF k >= Len(s) \/ NextStates(re.nfa, closed, s[k + 1]) = {}
  THEN [caps |-> cs, end |-> en]
  ELSE AttemptFrom(re, s, k + 1, NextStates(re.nfa, closed, s[k + 1]), cs, en)

AttemptFrom(re, s, k, sts, cs, en) ==
  AttemptAfter(re, s, k, Closure(re.nfa, sts),
               FixedOrderUpdate(re, cs, Closure(re.nfa, sts), PositionAt(s, k)),
               EndAfter(re.nfa, Closure(re.nfa, sts), PositionAt(s, k), en))

\* Regex::captures with the fixed order: the Capture of the first attempt
\* that has an end
RECURSIVE FixedOrderCaptures(_, _, _)
FixedOrderResult(re, s, k, attempt) ==
  IF attempt.end = None THEN FixedOrderCaptures(re, s, k + 1)
  ELSE Some(CaptureOf(attempt.caps, ByteOffset(s, k), attempt.end))

FixedOrderCaptures(re, s, k) ==
  IF k >= Len(s) THEN None
  ELSE FixedOrderResult(re, s, k, AttemptFrom(re, s, k, {START}, NoCaps, None))

C25_OrderIndependent ==
  Done => Ret("captures") = FixedOrderCaptures(regex, input, 0)

(***************************************************************************)
(* C26: in every Capture returned by captures or captures_all, each        *)
(* indexed and each named group span (gs, ge) lies inside the whole match  *)
(* m = get(0): m.start <= gs <= ge <= m.end; a group boundary seen after   *)
(* the last accepting position of the attempt is not reported.             *)
(***************************************************************************)
Inside(g, m) == m.start <= g.start /\ g.start <= g.end /\ g.end <= m.end

GroupsInside(c) ==
  /\ \A k \in DOMAIN c.captures : Inside(c.captures[k], c.captures[0])
  /\ \A n \in DOMAIN c.named_captures : Inside(c.named_captures[n], c.captures[0])

C26_GroupsInsideMatch ==
  Done =>
    /\ Ret("captures") # None => GroupsInside(Ret("captures")[1])
    /\ \A k \in 1..Len(Ret("captures_all")) : GroupsInside(Ret("captures_all")[k])

(***************************************************************************)
(* C28: a counted repetition {n}, {n,m} or {n,} applied to a sub-pattern   *)
(* with capturing groups leaves exactly one capture-list entry per         *)
(* capturing group of the pattern, so the groups to its right keep their   *)
(* source-order index: in `(a){2}(b)` capture_groups has 2 entries and     *)
(* `(b)` is group 2.  It is stated for patterns whose groups are unnamed.  *)
(***************************************************************************)
RECURSIVE CapturingGroups(_)
CapturingGroups(node) ==
  CASE node.type \in {"Empty", "Character", "Wildcard", "CharacterClass"} -> 0
    [] node.type \in {"Concatenation", "Alternation"} ->
         CapturingGroups(node.lhs) + CapturingGroups(node.rhs)
    [] node.type = "Group" ->
         (IF node.is_capturing THEN 1 ELSE 0) + CapturingGroups(node.inner)
    [] OTHER -> CapturingGroups(node.inner)

RECURSIVE NamedGroups(_)
NamedGroups(node) ==
  CASE node.type \in {"Empty", "Character", "Wildcard", "CharacterClass"} -> 0
    [] node.type \in {"Concatenation", "Alternation"} ->
         NamedGroups(node.lhs) + NamedGroups(node.rhs)
    [] node.type = "Group" ->
         (IF node.name # None THEN 1 ELSE 0) + NamedGroups(node.inner)
    [] OTHER -> NamedGroups(node.inner)

\* a counted repetition whose operand has a capturing group
RepeatsGroup ==
  /\ Parses /\ NamedGroups(Ast) = 0
  /\ \E r \in RangeNodes(Ast) : CapturingGroups(r.inner) > 0

C28_RepetitionKeepsGroups ==
  /\ Accepted /\ RepeatsGroup =>
       Len(regex.nfa.capture_groups) = CapturingGroups(Ast)
  /\ Done /\ pattern = <<"(", "a", ")", "{", "2", "}", "(", "b", ")">>
          /\ input = <<"a", "a", "b">> =>
       /\ DOMAIN Ret("captures")[1].captures = {0, 1, 2}
       /\ Ret("captures")[1].captures[2] = Match_new(2, 3, <<"b">>)

====
